---- MODULE Spec2Model ----
(***************************************************************************)
(* The load-generation and per-second latency-aggregation engine of        *)
(* jitlab/tools: load_py.py (HTTP POST load tester) and range_loader.py    *)
(* (byte-range GET load tester).                                           *)
(*                                                                         *)
(* One run is modelled: N worker tasks put Samples (ts, dt_ms, code) on    *)
(* the asyncio queue out_q; main() sleeps through the warmup, then runs    *)
(* the aggregation loop until the deadline, sets stop_evt, gathers the     *)
(* workers and joins the queue.  The wall clock is the variable now, in    *)
(* ticks of 1/TicksPerSec second; int(time.time()) is Sec(now).            *)
(*                                                                         *)
(* Runs of load_py are runs with saving enabled (args.no_save false).      *)
(*                                                                         *)
(* Variables marked "history" are not fields of the program: they record   *)
(* what the program did so that properties of the emitted rows can be      *)
(* stated.  No action's guard or program-state update reads them.          *)
(***************************************************************************)
EXTENDS Integers, Sequences, FiniteSets, TLC

\* ------------------------------------------------------------------ bounds
TicksPerSec == 2      \* clock resolution: ticks per wall-clock second
MaxLate == 1          \* ticks the clock runs on past the deadline awaited
MaxReq == 3           \* requests issued in one run, all workers together
ScenarioReq == 4      \* the same, in the runs of ScenarioSpec
RangeReq == 5         \* the same, in the runs of RangeSpec
MaxFeed == 5          \* Samples the loop gets in one run of AggSpec

\* ------------------------------------------------------------------ inputs
Tools == {"load_py", "range_loader"}
Concurrencies == {1, 2}       \* --concurrency
WarmupSecs == {0, 1}          \* --warmupSec
RunSecs == {1, 2, 3}          \* --runSec
StartSec == 100 * TicksPerSec \* the tick at which second 100 begins
StartTicks == {StartSec, StartSec + 1}

\* How one request can go: <<measured dt_ms, answer>>, where answer is
\* <<status>> for a response received and <<>> for a request that raised
\* (timeout, connection error, protocol error).
Responses == {<<10, <<200>>>>, <<999, <<>>>>}
ScenarioResponses ==
    {<<5, <<200>>>>, <<10, <<200>>>>, <<20, <<200>>>>, <<999, <<500>>>>}

VARIABLES
    tool,         \* which program runs
    concurrency,  \* args.concurrency
    warmupSec,    \* args.warmupSec
    runSec,       \* args.runSec
    sink_ok,      \* whether open(args.out, "w") succeeds
    now,          \* wall clock, in ticks
    pc,           \* where main() is
    wpc,          \* where each worker task is
    nreq,         \* requests issued so far (bounded by MaxReq)
    stop_evt,     \* asyncio.Event
    out_q,        \* asyncio.Queue: the items
    unfinished,   \* asyncio.Queue._unfinished_tasks
    f,            \* the CSV file: "none", "open", "closed"
    current_sec,
    lats,
    ok,
    err,
    end_time,     \* end_time (load_py) / t_end (range_loader), in ticks
    rows,         \* data rows written to the CSV, in order
    warm_end,     \* tick at which asyncio.sleep(warmupSec) may return
    held,         \* history: the Samples whose latency is in lats
    fed,          \* history: the Samples dequeued by the aggregation loop
    start_sec,    \* history: the initial current_sec
    chunk_size,   \* range_loader: args.chunk_size
    seek_prob,    \* range_loader: args.seek_prob, in percent
    total,        \* range_loader worker: total; None is <<>>, the int n is <<n>>
    offset,       \* range_loader worker: offset
    rng,          \* range_loader worker: <<start, end>> of the request in flight
    run,          \* history: the ranges requested since offset was last drawn
    got,          \* main: <<Sample>> while the try block works on it, else <<>>
    unflushed     \* rows written to the file object and not flushed yet

vars == <<tool, concurrency, warmupSec, runSec, sink_ok, now, pc, wpc, nreq, stop_evt,
          out_q, unfinished, f, current_sec, lats, ok, err, end_time, rows,
          warm_end, held, fed, start_sec, chunk_size, seek_prob, total,
          offset, rng, run, got, unflushed>>

\* Where main() is inside one pass of its loop body.
step == <<got, unflushed>>

\* The range worker's own state and its two arguments.
cursor == <<chunk_size, seek_prob, total, offset, rng, run>>

config == <<tool, concurrency, warmupSec, runSec, sink_ok>>
aggregator == <<current_sec, lats, ok, err, rows, held>>

Workers == 1..2

\* ------------------------------------------------------------- pure helpers
Min(a, b) == IF a < b THEN a ELSE b

\* int(time.time()) at tick t
Sec(t) == t \div TicksPerSec

\* Python round() of the rational num/den (num >= 0, den > 0): to the
\* nearest integer, a tie to the even one.
Round(num, den) ==
    LET q == num \div den
        r == num % den
    IN  IF 2 * r < den THEN q
        ELSE IF 2 * r > den THEN q + 1
        ELSE IF q % 2 = 0 THEN q ELSE q + 1

\* f"{x:.3f}" of the rational num/den: the text is modelled by the number of
\* thousandths it spells, in a one-element tuple; "" is the empty tuple.
Fmt3(num, den) == <<Round(1000 * num, den)>>
EmptyField == <<>>

RECURSIVE Sum(_)
Sum(s) == IF s = <<>> THEN 0 ELSE Head(s) + Sum(Tail(s))

\* The list left in arrival order.
Unsorted(s) == s

\* lats.sort()
Sorted(s) == SortSeq(s, LAMBDA a, b: a < b)

\* The index with the tie rounded up instead of to the even integer.
PIdxHalfUp(n, pct) == Min(n - 1, (2 * pct * (n - 1) + 100) \div 200)

\* min(n-1, int(round(pct/100 * (n-1)))), zero-based
PIdx(n, pct) == Min(n - 1, Round(pct * (n - 1), 100))

Is2xx(code) == 200 <= code /\ code < 300

\* A worker whose except branch records status 0 for a request that raised.
WorkerCodeZeroOnFailure(answer) == IF answer = <<>> THEN 0 ELSE answer[1]

\* worker: code = -1; try: code = r.status_code; except Exception: code = -1
WorkerCode(answer) == IF answer = <<>> THEN -1 ELSE answer[1]

\* The row of a non-empty bucket.  src (history) lists the Samples counted.
SummaryRow(cs, l, o, e, h) ==
    LET s == Sorted(l)
        n == Len(s)
    IN  [ts |-> cs, n |-> n,
         avg |-> Fmt3(Sum(s), n),
         p50 |-> Fmt3(s[PIdx(n, 50) + 1], 1),
         p95 |-> Fmt3(s[PIdx(n, 95) + 1], 1),
         ok |-> o, err |-> e, src |-> h]

\* w.writerow([current_sec, 0, "", "", "", 0, 0])
EmptyRow(cs) ==
    [ts |-> cs, n |-> 0, avg |-> EmptyField, p50 |-> EmptyField,
     p95 |-> EmptyField, ok |-> 0, err |-> 0, src |-> <<>>]

\* One aggregator state: the open bucket and the rows written so far.
Agg(cs, l, o, e, h, out) ==
    [current_sec |-> cs, lats |-> l, ok |-> o, err |-> e, held |-> h, rows |-> out]

\* A fold that counts as errors only the HTTP error statuses (400 and up), so
\* that a request that raised (status -1) is counted in neither ok nor err.
FoldHttpErrorsOnly(a, s) ==
    [a EXCEPT !.lats = Append(@, s.dt),
              !.ok = IF Is2xx(s.code) THEN @ + 1 ELSE @,
              !.err = IF s.code >= 400 THEN @ + 1 ELSE @,
              !.held = Append(@, s)]

\* lats.append(dt_ms); ok += 1 or err += 1
Fold(a, s) ==
    [a EXCEPT !.lats = Append(@, s.dt),
              !.ok = IF Is2xx(s.code) THEN @ + 1 ELSE @,
              !.err = IF Is2xx(s.code) THEN @ ELSE @ + 1,
              !.held = Append(@, s)]

\* A catch-up that writes the open bucket's row and jumps to ts, writing no
\* row for the seconds in between.
CatchUpOneRow(a, ts) ==
    IF a.current_sec < ts
    THEN Agg(ts, <<>>, 0, 0, <<>>,
             Append(a.rows,
                    IF a.lats # <<>>
                    THEN SummaryRow(a.current_sec, a.lats, a.ok, a.err, a.held)
                    ELSE EmptyRow(a.current_sec)))
    ELSE a

\* A catch-up that writes the rows and advances current_sec but does not
\* clear the bucket after a row.
RECURSIVE CatchUpKeepingBucket(_, _)
CatchUpKeepingBucket(a, ts) ==
    IF a.current_sec < ts
    THEN CatchUpKeepingBucket(
            Agg(a.current_sec + 1, a.lats, a.ok, a.err, a.held,
                Append(a.rows,
                       IF a.lats # <<>>
                       THEN SummaryRow(a.current_sec, a.lats, a.ok, a.err, a.held)
                       ELSE EmptyRow(a.current_sec))),
            ts)
    ELSE a

\* load_py: while current_sec < ts: write the bucket's row, current_sec += 1,
\* lats, ok, err = [], 0, 0
RECURSIVE LoadPyCatchUp(_, _)
LoadPyCatchUp(a, ts) ==
    IF a.current_sec < ts
    THEN LoadPyCatchUp(
            Agg(a.current_sec + 1, <<>>, 0, 0, <<>>,
                Append(a.rows,
                       IF a.lats # <<>>
                       THEN SummaryRow(a.current_sec, a.lats, a.ok, a.err, a.held)
                       ELSE EmptyRow(a.current_sec))),
            ts)
    ELSE a

\* The try block as it would be with an else branch that folds a Sample older
\* than current_sec into the open bucket.
OnSampleFoldingLate(a, s) ==
    IF s.ts > a.current_sec THEN Fold(LoadPyCatchUp(a, s.ts), s) ELSE Fold(a, s)

\* load_py: the body of the try block for one dequeued Sample
LoadPyOnSample(a, s) ==
    IF s.ts = a.current_sec THEN Fold(a, s)
    ELSE IF s.ts > a.current_sec THEN Fold(LoadPyCatchUp(a, s.ts), s)
    ELSE a

\* A catch-up that writes a row only for a second that has Samples and no
\* row for an empty second.
RECURSIVE CatchUpWithoutEmptyRows(_, _)
CatchUpWithoutEmptyRows(a, ts) ==
    IF a.current_sec < ts
    THEN CatchUpWithoutEmptyRows(
            Agg(a.current_sec + 1, <<>>, 0, 0, <<>>,
                IF a.lats # <<>>
                THEN Append(a.rows,
                            SummaryRow(a.current_sec, a.lats, a.ok, a.err, a.held))
                ELSE a.rows),
            ts)
    ELSE a

\* range_loader: the same loop, as written there
RECURSIVE RangeCatchUp(_, _)
RangeCatchUp(a, ts) ==
    IF a.current_sec < ts
    THEN RangeCatchUp(
            Agg(a.current_sec + 1, <<>>, 0, 0, <<>>,
                Append(a.rows,
                       IF a.lats # <<>>
                       THEN SummaryRow(a.current_sec, a.lats, a.ok, a.err, a.held)
                       ELSE EmptyRow(a.current_sec))),
            ts)
    ELSE a

\* The try block as it would be with an else branch that moves current_sec
\* back to the second of a Sample older than current_sec.
OnSampleRewinding(a, s) ==
    IF s.ts = a.current_sec THEN Fold(a, s)
    ELSE IF s.ts > a.current_sec THEN Fold(RangeCatchUp(a, s.ts), s)
    ELSE Fold(Agg(s.ts, <<>>, 0, 0, <<>>, a.rows), s)

\* range_loader: the body of the try block for one dequeued Sample
RangeOnSample(a, s) ==
    IF s.ts = a.current_sec THEN Fold(a, s)
    ELSE IF s.ts > a.current_sec THEN Fold(RangeCatchUp(a, s.ts), s)
    ELSE a

\* An except block that writes the empty row and leaves current_sec alone.
OnTimeoutNotAdvancing(a, now_sec) ==
    IF now_sec > a.current_sec
    THEN [a EXCEPT !.rows = Append(@, EmptyRow(a.current_sec))]
    ELSE a

\* range_loader: except asyncio.TimeoutError, at wall-clock second now_sec
RangeOnTimeout(a, now_sec) ==
    IF now_sec > a.current_sec
    THEN [a EXCEPT !.rows = Append(@, EmptyRow(a.current_sec)),
                   !.current_sec = now_sec]
    ELSE a

\* load_py: except asyncio.TimeoutError leaves the aggregator alone
LoadPyOnTimeout(a, now_sec) == a

Cur == Agg(current_sec, lats, ok, err, held, rows)

SetAgg(a) ==
    /\ current_sec' = a.current_sec
    /\ lats' = a.lats
    /\ ok' = a.ok
    /\ err' = a.err
    /\ held' = a.held
    /\ rows' = a.rows

\* ------------------------------------------------------------------- Init
\* Spec follows the queue and the aggregator of either tool; the size probes
\* and the cursor of a range_loader worker are followed in RangeSpec, and
\* rest here.  One pass of main()'s loop body is one step here (it has no
\* await inside), so no Sample is being worked on and no row is unflushed
\* between steps; SinkSpec follows the pass statement by statement.
Init ==
    /\ tool \in Tools
    /\ concurrency \in Concurrencies
    /\ warmupSec \in WarmupSecs
    /\ runSec \in RunSecs
    /\ sink_ok \in BOOLEAN
    /\ now \in StartTicks
    /\ pc = "warmup"
    /\ wpc = [w \in Workers |-> IF w <= concurrency THEN "top" ELSE "none"]
    /\ nreq = 0
    /\ stop_evt = FALSE
    /\ out_q = <<>>
    /\ unfinished = 0
    /\ f = "none"
    /\ current_sec = 0
    /\ lats = <<>>
    /\ ok = 0
    /\ err = 0
    /\ end_time = 0
    /\ rows = <<>>
    /\ warm_end = now + warmupSec * TicksPerSec
    /\ held = <<>>
    /\ fed = <<>>
    /\ start_sec = 0
    /\ chunk_size = 0
    /\ seek_prob = 0
    /\ total = <<>>
    /\ offset = 0
    /\ rng = <<>>
    /\ run = <<>>
    /\ got = <<>>
    /\ unflushed = 0

\* ------------------------------------------------------------------ clock
\* The deadline main() is waiting for, or waited for last.
Pending == IF pc = "warmup" THEN warm_end ELSE end_time

\* Time passes.  The clock is cut off MaxLate ticks after the deadline.
Tick ==
    /\ now < Pending + MaxLate
    /\ now' = now + 1
    /\ UNCHANGED <<config, step, cursor, pc, wpc, nreq, stop_evt, out_q, unfinished, f,
                   aggregator, end_time, warm_end, fed, start_sec>>

\* ---------------------------------------------------------------- workers
\* while not stop_evt.is_set(): issue the next request (at most budget
\* requests are issued in one run)
Request(w, budget) ==
    /\ wpc[w] = "top"
    /\ ~stop_evt
    /\ nreq < budget
    /\ wpc' = [wpc EXCEPT ![w] = "inflight"]
    /\ nreq' = nreq + 1
    /\ UNCHANGED <<config, step, cursor, now, pc, stop_evt, out_q, unfinished, f, aggregator,
                   end_time, warm_end, fed, start_sec>>

\* while not stop_evt.is_set(): the loop ends
WorkerExit(w) ==
    /\ wpc[w] = "top"
    /\ stop_evt
    /\ wpc' = [wpc EXCEPT ![w] = "done"]
    /\ UNCHANGED <<config, step, cursor, now, pc, nreq, stop_evt, out_q, unfinished, f,
                   aggregator, end_time, warm_end, fed, start_sec>>

\* The request completes or raises; out_q.put((int(time.time()), dt_ms, code)).
\* wu (history): the Sample was produced while main() was in the warmup sleep.
\* exc (history): the request raised.
\* asyncio.sleep(0) gives the workers one turn of the event loop, in which
\* they issue their first request: none completes before main() goes on.
NewSample(r) ==
    [ts |-> Sec(now), dt |-> r[1], code |-> WorkerCode(r[2]),
     wu |-> (pc = "warmup"), exc |-> (r[2] = <<>>)]

Complete(w, answers) ==
    /\ wpc[w] = "inflight"
    /\ ~(pc = "warmup" /\ warmupSec = 0)
    /\ \E r \in answers : out_q' = Append(out_q, NewSample(r))
    /\ unfinished' = unfinished + 1
    /\ wpc' = [wpc EXCEPT ![w] = "top"]
    /\ UNCHANGED <<config, step, cursor, now, pc, nreq, stop_evt, f, aggregator, end_time,
                   warm_end, fed, start_sec>>

\* ------------------------------------------------------------------- main
\* asyncio.sleep(warmupSec) returns; the CSV is opened and the header
\* written; current_sec, lats, ok, err and the deadline are initialised.
\* If open() raises, the exception leaves main(): asyncio.run cancels the
\* worker tasks and the program ends.
WarmupDone ==
    /\ pc = "warmup"
    /\ now >= warm_end
    /\ IF sink_ok
       THEN /\ f' = "open"
            /\ current_sec' = Sec(now)
            /\ lats' = <<>>
            /\ ok' = 0
            /\ err' = 0
            /\ end_time' = now + runSec * TicksPerSec
            /\ start_sec' = Sec(now)
            /\ pc' = "loop"
            /\ UNCHANGED wpc
       ELSE /\ pc' = "aborted"
            /\ wpc' = [w \in Workers |->
                          IF wpc[w] = "none" THEN "none" ELSE "cancelled"]
            /\ UNCHANGED <<f, current_sec, lats, ok, err, end_time, start_sec>>
    /\ UNCHANGED <<config, step, cursor, now, nreq, stop_evt, out_q, unfinished, rows,
                   warm_end, held, fed>>

\* The loop is left: (range_loader: the with block closes the file,)
\* stop_evt.set(), and main() awaits asyncio.gather(*tasks).
Break ==
    /\ stop_evt' = TRUE
    /\ f' = IF tool = "range_loader" THEN "closed" ELSE f
    /\ pc' = "gather"

\* Top of the loop: the deadline test, then wait_for(out_q.get(), timeout).
LoopCheck ==
    /\ pc = "loop"
    /\ IF now >= end_time
       THEN Break
       ELSE pc' = "wait" /\ UNCHANGED <<stop_evt, f>>
    /\ UNCHANGED <<config, step, cursor, now, wpc, nreq, out_q, unfinished, aggregator,
                   end_time, warm_end, fed, start_sec>>

\* out_q.get() returns a Sample: the try block, then out_q.task_done().
Dequeue ==
    /\ pc = "wait"
    /\ out_q # <<>>
    /\ LET s == Head(out_q)
       IN  /\ SetAgg(IF tool = "load_py" THEN LoadPyOnSample(Cur, s)
                                         ELSE RangeOnSample(Cur, s))
           /\ fed' = Append(fed, s)
    /\ out_q' = Tail(out_q)
    /\ unfinished' = unfinished - 1
    /\ pc' = "loop"
    /\ UNCHANGED <<config, step, cursor, now, wpc, nreq, stop_evt, f, end_time, warm_end,
                   start_sec>>

\* wait_for times out on the empty queue: the except block.
PollTimeout ==
    /\ pc = "wait"
    /\ out_q = <<>>
    /\ SetAgg(IF tool = "load_py" THEN LoadPyOnTimeout(Cur, Sec(now))
                                  ELSE RangeOnTimeout(Cur, Sec(now)))
    /\ IF tool = "load_py" /\ now >= end_time
       THEN Break
       ELSE pc' = "loop" /\ UNCHANGED <<stop_evt, f>>
    /\ UNCHANGED <<config, step, cursor, now, wpc, nreq, out_q, unfinished, end_time,
                   warm_end, fed, start_sec>>

\* The shutdown as it would be without load_py's drain loop: Samples left on
\* the queue stay unfinished when out_q.join() is called.
GatherWithoutDrain ==
    /\ pc = "gather"
    /\ \A w \in Workers : wpc[w] \in {"done", "none"}
    /\ pc' = IF unfinished = 0 THEN "stopped" ELSE "join"
    /\ f' = IF tool = "load_py" /\ unfinished = 0 THEN "closed" ELSE f
    /\ UNCHANGED <<config, step, cursor, now, wpc, nreq, stop_evt, out_q, unfinished,
                   aggregator, end_time, warm_end, fed, start_sec>>

\* gather returns once every worker task has finished.  load_py then empties
\* the queue with get_nowait/task_done; both call out_q.join(), which returns
\* only if no task is unfinished; load_py then closes the file.
Gather ==
    /\ pc = "gather"
    /\ \A w \in Workers : wpc[w] \in {"done", "none"}
    /\ LET left == IF tool = "load_py" THEN <<>> ELSE out_q
           unf == IF tool = "load_py" THEN unfinished - Len(out_q) ELSE unfinished
       IN  /\ out_q' = left
           /\ unfinished' = unf
           /\ pc' = IF unf = 0 THEN "stopped" ELSE "join"
           /\ f' = IF tool = "load_py" /\ unf = 0 THEN "closed" ELSE f
    /\ UNCHANGED <<config, step, cursor, now, wpc, nreq, stop_evt, aggregator, end_time,
                   warm_end, fed, start_sec>>

WorkerStart(w) == Request(w, MaxReq)
WorkerComplete(w) == Complete(w, Responses)

Next ==
    \/ Tick
    \/ \E w \in Workers : WorkerStart(w)
    \/ \E w \in Workers : WorkerExit(w)
    \/ \E w \in Workers : WorkerComplete(w)
    \/ WarmupDone
    \/ LoopCheck
    \/ Dequeue
    \/ PollTimeout
    \/ Gather

Spec == Init /\ [][Next]_vars

\* The event loop runs every task that can run, every request completes or
\* times out, and time passes.
Fairness ==
    /\ WF_vars(Tick)
    /\ \A w \in Workers : WF_vars(WorkerStart(w))
    /\ \A w \in Workers : WF_vars(WorkerExit(w))
    /\ \A w \in Workers : WF_vars(WorkerComplete(w))
    /\ WF_vars(WarmupDone)
    /\ WF_vars(LoopCheck)
    /\ WF_vars(Dequeue)
    /\ WF_vars(PollTimeout)
    /\ WF_vars(Gather)

FairSpec == Spec /\ Fairness

\* ---------------------------------------------------------------- scenario
\* Runs with one worker, no warmup and runSec = 3 that start on second 100,
\* against a target with the answers of the worked examples.
ScenarioInit ==
    /\ Init
    /\ concurrency = 1
    /\ warmupSec = 0
    /\ runSec = 3
    /\ sink_ok
    /\ now = StartSec

ScenarioStart(w) == Request(w, ScenarioReq)
ScenarioComplete(w) == Complete(w, ScenarioResponses)

ScenarioNext ==
    \/ Tick
    \/ \E w \in Workers : ScenarioStart(w)
    \/ \E w \in Workers : WorkerExit(w)
    \/ \E w \in Workers : ScenarioComplete(w)
    \/ WarmupDone
    \/ LoopCheck
    \/ Dequeue
    \/ PollTimeout
    \/ Gather

ScenarioSpec == ScenarioInit /\ [][ScenarioNext]_vars

\* ------------------------------------------------------------ range worker
\* One worker task of range_loader, from its creation: the two size probes,
\* then the fallback loop or the streaming loop over byte ranges.  Of main()
\* the worker sees only stop_evt, so the clock rests and the deadline may
\* come at any moment.
Totals == {1, 2, 5}              \* sizes of the resource
Sizes == {-5, 0} \cup Totals     \* integers a size header can spell
ChunkSizes == {0, 1, 2, 3}       \* --chunk-size
SeekProbs == {0, 50, 100}        \* --seek-prob, in percent
RandomDraws == {0, 99}           \* values of random.random(), in percent

\* client.head(url): it raises; it answers a status other than 200; or it
\* answers 200 with Content-Length missing, not an integer, or an integer.
HeadOutcomes ==
    {<<"raise", 0>>, <<"status", 404>>, <<"missing", 0>>, <<"text", 0>>}
        \cup {<<"int", v>> : v \in Sizes}

\* total after the HEAD probe: int(header or 0); None when the status is not
\* 200 or when the request or int() raised
HeadTotal(o) ==
    IF o[1] = "int" THEN <<o[2]>>
    ELSE IF o[1] = "missing" THEN <<0>>
    ELSE <<>>

\* client.get(url, Range: bytes=0-0): it raises; or Content-Range is missing
\* or has no "/"; or what follows the last "/" is not an integer, or is one.
SizeProbeOutcomes ==
    {<<"raise", 0>>, <<"missing", 0>>, <<"text", 0>>}
        \cup {<<"int", v>> : v \in Sizes}

\* total after the bytes=0-0 probe, t being total before it
SizeProbeTotal(t, o) ==
    IF o[1] = "int" THEN <<o[2]>>
    ELSE IF o[1] = "missing" THEN t
    ELSE <<>>

\* not total
Falsy(t) == t = <<>> \/ t[1] = 0

\* A worker that gives up only when no size at all was found.
GivesUpOnNoneOnly(t) == t = <<>>

\* if not total or total <= 0
GivesUp(t) == Falsy(t) \/ t[1] <= 0

Max(a, b) == IF a > b THEN a ELSE b

\* the values random.randrange(0, max(1, total - 1)) can return
RandRange(t) == 0..(Max(1, t - 1) - 1)

\* An end computed without the clamp to max_offset.
RangeEndUnclamped(o, chunk, max_offset) == o + chunk - 1

\* end = min(offset + chunk_size - 1, max_offset)
RangeEnd(o, chunk, max_offset) == Min(o + chunk - 1, max_offset)

\* A test that advances past the end of the resource.
SequentialPastEnd(end, max_offset, u, p) == u >= p

\* if end < max_offset and random.random() >= seek_prob
Sequential(end, max_offset, u, p) == end < max_offset /\ u >= p

WorkerInit(chunks, probs) ==
    /\ tool = "range_loader"
    /\ concurrency = 1
    /\ warmupSec = 0
    /\ runSec = 1
    /\ sink_ok = TRUE
    /\ now = StartSec
    /\ pc = "loop"
    /\ wpc = [w \in Workers |-> IF w <= concurrency THEN "head" ELSE "none"]
    /\ nreq = 0
    /\ stop_evt = FALSE
    /\ out_q = <<>>
    /\ unfinished = 0
    /\ f = "open"
    /\ current_sec = Sec(now)
    /\ lats = <<>>
    /\ ok = 0
    /\ err = 0
    /\ end_time = now + runSec * TicksPerSec
    /\ rows = <<>>
    /\ warm_end = now
    /\ held = <<>>
    /\ fed = <<>>
    /\ start_sec = Sec(now)
    /\ chunk_size \in chunks
    /\ seek_prob \in probs
    /\ total = <<>>
    /\ offset = 0
    /\ rng = <<>>
    /\ run = <<>>
    /\ got = <<>>
    /\ unflushed = 0

\* After the probes: the fallback loop, or max_offset = total - 1 and the
\* random starting offset.
Settle(w, t) ==
    IF GivesUp(t)
    THEN wpc' = [wpc EXCEPT ![w] = "ftop"] /\ UNCHANGED offset
    ELSE wpc' = [wpc EXCEPT ![w] = "top"] /\ offset' \in RandRange(t[1])

\* The HEAD probe returns or raises.
HeadProbe(w, outcomes) ==
    /\ wpc[w] = "head"
    /\ \E o \in outcomes :
         LET t == HeadTotal(o)
         IN  /\ total' = t
             /\ IF Falsy(t)
                THEN wpc' = [wpc EXCEPT ![w] = "probe"] /\ UNCHANGED offset
                ELSE Settle(w, t)
    /\ UNCHANGED <<config, step, chunk_size, seek_prob, rng, run, now, pc, nreq,
                   stop_evt, out_q, unfinished, f, aggregator, end_time,
                   warm_end, fed, start_sec>>

\* if not total: the bytes=0-0 probe returns or raises.
SizeProbe(w) ==
    /\ wpc[w] = "probe"
    /\ \E o \in SizeProbeOutcomes :
         LET t == SizeProbeTotal(total, o)
         IN  total' = t /\ Settle(w, t)
    /\ UNCHANGED <<config, step, chunk_size, seek_prob, rng, run, now, pc, nreq,
                   stop_evt, out_q, unfinished, f, aggregator, end_time,
                   warm_end, fed, start_sec>>

\* Fallback loop: while not stop_evt.is_set(): client.get(url) without a Range
FallbackRequest(w) ==
    /\ wpc[w] = "ftop"
    /\ ~stop_evt
    /\ nreq < RangeReq
    /\ wpc' = [wpc EXCEPT ![w] = "fget"]
    /\ nreq' = nreq + 1
    /\ UNCHANGED <<config, step, cursor, now, pc, stop_evt, out_q, unfinished, f,
                   aggregator, end_time, warm_end, fed, start_sec>>

\* Fallback loop: the GET returns or raises; out_q.put
FallbackComplete(w) ==
    /\ wpc[w] = "fget"
    /\ \E r \in Responses : out_q' = Append(out_q, NewSample(r))
    /\ unfinished' = unfinished + 1
    /\ wpc' = [wpc EXCEPT ![w] = "ftop"]
    /\ UNCHANGED <<config, step, cursor, now, pc, nreq, stop_evt, f, aggregator,
                   end_time, warm_end, fed, start_sec>>

\* Fallback loop: stop_evt is set; return
FallbackExit(w) ==
    /\ wpc[w] = "ftop"
    /\ stop_evt
    /\ wpc' = [wpc EXCEPT ![w] = "done"]
    /\ UNCHANGED <<config, step, cursor, now, pc, nreq, stop_evt, out_q, unfinished,
                   f, aggregator, end_time, warm_end, fed, start_sec>>

\* A streaming loop that does not test stop_evt before its next request.
RangeRequestIgnoringStop(w) ==
    /\ wpc[w] = "top"
    /\ nreq < RangeReq
    /\ \E u \in RandomDraws :
         \E o \in (IF u < seek_prob THEN RandRange(total[1]) ELSE {offset}) :
            LET r == <<o, RangeEnd(o, chunk_size, total[1] - 1)>>
            IN  /\ offset' = o
                /\ rng' = r
                /\ run' = IF u < seek_prob THEN <<r>> ELSE Append(run, r)
    /\ wpc' = [wpc EXCEPT ![w] = "inflight"]
    /\ nreq' = nreq + 1
    /\ UNCHANGED <<config, step, chunk_size, seek_prob, total, now, pc, stop_evt,
                   out_q, unfinished, f, aggregator, end_time, warm_end, fed,
                   start_sec>>

\* Streaming loop, top: the seek decision, start and end, and the GET is sent.
RangeRequest(w) ==
    /\ wpc[w] = "top"
    /\ ~stop_evt
    /\ nreq < RangeReq
    /\ \E u \in RandomDraws :
         \E o \in (IF u < seek_prob THEN RandRange(total[1]) ELSE {offset}) :
            LET r == <<o, RangeEnd(o, chunk_size, total[1] - 1)>>
            IN  /\ offset' = o
                /\ rng' = r
                /\ run' = IF u < seek_prob THEN <<r>> ELSE Append(run, r)
    /\ wpc' = [wpc EXCEPT ![w] = "inflight"]
    /\ nreq' = nreq + 1
    /\ UNCHANGED <<config, step, chunk_size, seek_prob, total, now, pc, stop_evt,
                   out_q, unfinished, f, aggregator, end_time, warm_end, fed,
                   start_sec>>

\* Streaming loop, bottom: the GET returns or raises; out_q.put; the offset
\* advances to end + 1 or is drawn afresh.  start and end are not read again
\* before the next iteration assigns them.
RangeComplete(w, answers) ==
    /\ wpc[w] = "inflight"
    /\ \E r \in answers : out_q' = Append(out_q, NewSample(r))
    /\ unfinished' = unfinished + 1
    /\ \E u \in RandomDraws :
         IF Sequential(rng[2], total[1] - 1, u, seek_prob)
         THEN offset' = rng[2] + 1 /\ UNCHANGED run
         ELSE offset' \in RandRange(total[1]) /\ run' = <<>>
    /\ rng' = <<>>
    /\ wpc' = [wpc EXCEPT ![w] = "top"]
    /\ UNCHANGED <<config, step, chunk_size, seek_prob, total, now, pc, nreq,
                   stop_evt, f, aggregator, end_time, warm_end, fed, start_sec>>

\* main(): the while loop ends at the deadline and stop_evt.set() follows.
Deadline ==
    /\ pc = "loop"
    /\ Break
    /\ UNCHANGED <<config, step, cursor, now, wpc, nreq, out_q, unfinished,
                   aggregator, end_time, warm_end, fed, start_sec>>

RangeInit == WorkerInit(ChunkSizes, SeekProbs)
RangeHead(w) == HeadProbe(w, HeadOutcomes)
RangeDone(w) == RangeComplete(w, Responses)

RangeNext ==
    \/ \E w \in Workers : RangeHead(w)
    \/ \E w \in Workers : SizeProbe(w)
    \/ \E w \in Workers : FallbackRequest(w)
    \/ \E w \in Workers : FallbackComplete(w)
    \/ \E w \in Workers : FallbackExit(w)
    \/ \E w \in Workers : RangeRequest(w)
    \/ \E w \in Workers : RangeDone(w)
    \/ \E w \in Workers : WorkerExit(w)
    \/ Deadline

RangeSpec == RangeInit /\ [][RangeNext]_vars

\* Runs of the streaming loop without seeks (seek_prob = 0) over a resource
\* whose size the HEAD probe reports, every request succeeding; the sizes
\* include the worked example's 1000 bytes read in chunks of 300.
StreamTotals == {1, 2, 5, 1000}
StreamChunkSizes == {1, 2, 300}
StreamResponses == {<<10, <<200>>>>}

StreamInit == WorkerInit(StreamChunkSizes, {0})
StreamHead(w) == HeadProbe(w, {<<"int", v>> : v \in StreamTotals})
StreamDone(w) == RangeComplete(w, StreamResponses)

StreamNext ==
    \/ \E w \in Workers : StreamHead(w)
    \/ \E w \in Workers : RangeRequest(w)
    \/ \E w \in Workers : StreamDone(w)
    \/ \E w \in Workers : WorkerExit(w)
    \/ Deadline

StreamSpec == StreamInit /\ [][StreamNext]_vars

\* -------------------------------------------------------------- aggregator
\* The aggregation loop alone, with what wait_for(out_q.get(), timeout) can
\* give it until the deadline: a Sample of the second the clock has reached
\* (the try block) or a timeout (the except block).  Between two polls the
\* clock stays in its second or moves into the next one.
AggGaps == {0, 1}

AggInit ==
    /\ tool \in Tools
    /\ concurrency = 1
    /\ warmupSec = 0
    /\ runSec = 3
    /\ sink_ok = TRUE
    /\ now = StartSec
    /\ pc = "wait"
    /\ wpc = [w \in Workers |-> IF w <= concurrency THEN "top" ELSE "none"]
    /\ nreq = 0
    /\ stop_evt = FALSE
    /\ out_q = <<>>
    /\ unfinished = 0
    /\ f = "open"
    /\ current_sec = Sec(now)
    /\ lats = <<>>
    /\ ok = 0
    /\ err = 0
    /\ end_time = now + runSec * TicksPerSec
    /\ rows = <<>>
    /\ warm_end = now
    /\ held = <<>>
    /\ fed = <<>>
    /\ start_sec = Sec(now)
    /\ chunk_size = 0
    /\ seek_prob = 0
    /\ total = <<>>
    /\ offset = 0
    /\ rng = <<>>
    /\ run = <<>>
    /\ got = <<>>
    /\ unflushed = 0

\* out_q.get() returns a Sample put d seconds after the last poll: the try
\* block.
GetSample(d, r) ==
    /\ Len(fed) < MaxFeed
    /\ now + d * TicksPerSec < end_time
    /\ now' = now + d * TicksPerSec
    /\ LET s == [ts |-> Sec(now'), dt |-> r[1], code |-> WorkerCode(r[2]),
                 wu |-> FALSE, exc |-> (r[2] = <<>>)]
       IN  /\ SetAgg(IF tool = "load_py" THEN LoadPyOnSample(Cur, s)
                                         ELSE RangeOnSample(Cur, s))
           /\ fed' = Append(fed, s)
    /\ UNCHANGED <<config, step, cursor, pc, wpc, nreq, stop_evt, out_q, unfinished,
                   f, end_time, warm_end, start_sec>>

\* wait_for times out d seconds after the last poll: the except block.
GetTimeout(d) ==
    /\ now + d * TicksPerSec < end_time
    /\ now' = now + d * TicksPerSec
    /\ SetAgg(IF tool = "load_py" THEN LoadPyOnTimeout(Cur, Sec(now'))
                                  ELSE RangeOnTimeout(Cur, Sec(now')))
    /\ UNCHANGED <<config, step, cursor, pc, wpc, nreq, stop_evt, out_q, unfinished,
                   f, end_time, warm_end, fed, start_sec>>

AggNext ==
    \/ \E d \in AggGaps : \E r \in ScenarioResponses : GetSample(d, r)
    \/ \E d \in AggGaps : GetTimeout(d)

AggSpec == AggInit /\ [][AggNext]_vars

\* --------------------------------------------------------------------- sink
\* The aggregation loop of AggSpec, one statement at a time where it writes
\* to the file: writerow, f.flush(), and the update of current_sec are
\* separate steps, so that every point at which the process can be killed
\* is a state.

\* f.flush() missing: what was written stays in the file object.
NotFlushed(u) == u

\* f.flush(): nothing written is left in the file object
Flushed(u) == 0

\* out_q.get() returns a Sample put d seconds after the last poll; the
\* if/elif on ts; a Sample of current_sec is folded at once.
SinkGet(d, r) ==
    /\ pc = "wait"
    /\ Len(fed) < MaxFeed
    /\ now + d * TicksPerSec < end_time
    /\ now' = now + d * TicksPerSec
    /\ LET s == [ts |-> Sec(now'), dt |-> r[1], code |-> WorkerCode(r[2]),
                 wu |-> FALSE, exc |-> (r[2] = <<>>)]
       IN  /\ fed' = Append(fed, s)
           /\ IF s.ts > current_sec
              THEN got' = <<s>> /\ pc' = "catchup" /\ UNCHANGED aggregator
              ELSE /\ got' = <<>>
                   /\ pc' = "wait"
                   /\ SetAgg(IF s.ts = current_sec THEN Fold(Cur, s) ELSE Cur)
    /\ UNCHANGED <<config, cursor, unflushed, wpc, nreq, stop_evt, out_q,
                   unfinished, f, end_time, warm_end, start_sec>>

\* while current_sec < ts: w.writerow(the bucket's row)
SinkWriteRow ==
    /\ pc = "catchup"
    /\ current_sec < got[1].ts
    /\ rows' = Append(rows, IF lats # <<>>
                            THEN SummaryRow(current_sec, lats, ok, err, held)
                            ELSE EmptyRow(current_sec))
    /\ unflushed' = unflushed + 1
    /\ pc' = "flush"
    /\ UNCHANGED <<config, cursor, got, now, wpc, nreq, stop_evt, out_q,
                   unfinished, f, current_sec, lats, ok, err, held, end_time,
                   warm_end, fed, start_sec>>

\* f.flush()
SinkFlush ==
    /\ pc = "flush"
    /\ unflushed' = Flushed(unflushed)
    /\ pc' = "advance"
    /\ UNCHANGED <<config, cursor, got, now, wpc, nreq, stop_evt, out_q,
                   unfinished, f, aggregator, end_time, warm_end, fed, start_sec>>

\* current_sec += 1; lats, ok, err = [], 0, 0
SinkAdvance ==
    /\ pc = "advance"
    /\ current_sec' = current_sec + 1
    /\ lats' = <<>>
    /\ ok' = 0
    /\ err' = 0
    /\ held' = <<>>
    /\ pc' = "catchup"
    /\ UNCHANGED <<config, cursor, step, now, wpc, nreq, stop_evt, out_q,
                   unfinished, f, rows, end_time, warm_end, fed, start_sec>>

\* The while loop is over: the Sample is folded; out_q.task_done().
SinkFold ==
    /\ pc = "catchup"
    /\ ~(current_sec < got[1].ts)
    /\ SetAgg(Fold(Cur, got[1]))
    /\ got' = <<>>
    /\ pc' = "wait"
    /\ UNCHANGED <<config, cursor, unflushed, now, wpc, nreq, stop_evt, out_q,
                   unfinished, f, end_time, warm_end, fed, start_sec>>

\* wait_for times out d seconds after the last poll; range_loader writes the
\* empty row if the clock is past current_sec.
SinkTimeout(d) ==
    /\ pc = "wait"
    /\ now + d * TicksPerSec < end_time
    /\ now' = now + d * TicksPerSec
    /\ IF tool = "range_loader" /\ Sec(now') > current_sec
       THEN /\ rows' = Append(rows, EmptyRow(current_sec))
            /\ unflushed' = unflushed + 1
            /\ pc' = "tflush"
       ELSE UNCHANGED <<rows, unflushed, pc>>
    /\ UNCHANGED <<config, cursor, got, wpc, nreq, stop_evt, out_q, unfinished,
                   f, current_sec, lats, ok, err, held, end_time, warm_end,
                   fed, start_sec>>

\* range_loader, except block: f.flush(); current_sec = now_sec
SinkTimeoutFlush ==
    /\ pc = "tflush"
    /\ unflushed' = Flushed(unflushed)
    /\ current_sec' = Sec(now)
    /\ pc' = "wait"
    /\ UNCHANGED <<config, cursor, got, now, wpc, nreq, stop_evt, out_q,
                   unfinished, f, lats, ok, err, rows, held, end_time,
                   warm_end, fed, start_sec>>

SinkNext ==
    \/ \E d \in AggGaps : \E r \in Responses : SinkGet(d, r)
    \/ SinkWriteRow
    \/ SinkFlush
    \/ SinkAdvance
    \/ SinkFold
    \/ \E d \in AggGaps : SinkTimeout(d)
    \/ SinkTimeoutFlush

SinkSpec == AggInit /\ [][SinkNext]_vars

\* ------------------------------------------------------------------ claims
\* The aggregation loop has been left: the run has ended.
RunOver == pc \in {"gather", "join", "stopped"}

WorkersExited == \A w \in Workers : wpc[w] \in {"done", "none"}

RECURSIVE MaxTs(_)
MaxTs(s) ==
    IF Len(s) = 1 THEN s[1].ts
    ELSE LET m == MaxTs(Tail(s)) IN IF s[1].ts > m THEN s[1].ts ELSE m

\* A row as the CSV shows it, and a Sample as the queue holds it.
Visible(r) == <<r.ts, r.n, r.avg, r.p50, r.p95, r.ok, r.err>>
Tuple(s) == <<s.ts, s.dt, s.code>>

\* C1: the rows written to the sink are gap-free: of two consecutive rows the
\* later one's ts is the earlier one's ts plus 1.
C1_GapFree ==
    \A i \in 1..(Len(rows) - 1) : rows[i + 1].ts = rows[i].ts + 1

\* C2: when the run ends, the open bucket has been flushed: the last row
\* written has ts = current_sec and counts the Samples the bucket held, so no
\* Sample of the bucket is lost.
C2_FinalFlush ==
    RunOver =>
        /\ rows # <<>>
        /\ rows[Len(rows)].ts = current_sec
        /\ rows[Len(rows)].src = held

\* C3: at the end of a run that consumed Samples, the number of rows equals
\* max(observed_at) - initial current_sec + 1.
C3_RowCount ==
    (RunOver /\ fed # <<>>) => Len(rows) = MaxTs(fed) - start_sec + 1

\* C4: every run reaches Stopped: the deadline passes, stop_evt is set, the
\* workers exit and main() returns (or the run was aborted at the sink).
C4_Terminates == <>(pc \in {"stopped", "aborted"})

\* C5: no Sample produced during the warmup is counted in any row.
C5_WarmupDiscarded ==
    \A i \in DOMAIN rows : \A j \in DOMAIN rows[i].src : ~rows[i].src[j].wu

\* C6: every Sample counted in a row has observed_at equal to the row's ts.
C6_OwnSecond ==
    \A i \in DOMAIN rows :
        /\ rows[i].n = Len(rows[i].src)
        /\ \A j \in DOMAIN rows[i].src : rows[i].src[j].ts = rows[i].ts

\* C7: a poll that times out when the wall-clock second is past current_sec
\* flushes and advances as a Sample of the wall-clock second would (one row
\* per second up to it, the first one the open bucket's) and leaves a fresh
\* empty bucket.
C7_TimeoutFlush ==
    [][(pc = "wait" /\ out_q = <<>> /\ pc' # "wait" /\ Sec(now) > current_sec)
        => /\ rows' = LoadPyCatchUp(Cur, Sec(now)).rows
           /\ current_sec' = Sec(now)
           /\ lats' = <<>> /\ ok' = 0 /\ err' = 0]_vars

\* C8: once stop_evt is set and the workers have exited, the Samples left in
\* the channel are pulled: the channel becomes empty.
C8_Drained == (stop_evt /\ WorkersExited) ~> (out_q = <<>>)

\* C9: a run emits exactly runSec rows, each with ok = count and err = 0 when
\* every request succeeded.
C9_RowPerSecond ==
    RunOver =>
        /\ Len(rows) = runSec
        /\ (\A k \in DOMAIN fed : Is2xx(fed[k].code))
              => \A i \in DOMAIN rows : rows[i].ok = rows[i].n /\ rows[i].err = 0

\* C10: a run fed (100,10,200), (100,20,200), (100,999,500), (102,5,200) ends
\* with three rows: ts=100 count=3 avg=343 p50=20 p95=999 ok=2 err=1; ts=101
\* empty; ts=102 count=1 avg=5 p50=5 p95=5 ok=1 err=0.
C10_Scenario ==
    (/\ RunOver
     /\ start_sec = 100
     /\ [k \in DOMAIN fed |-> Tuple(fed[k])]
          = << <<100, 10, 200>>, <<100, 20, 200>>, <<100, 999, 500>>, <<102, 5, 200>> >>)
    => [i \in DOMAIN rows |-> Visible(rows[i])]
          = << <<100, 3, <<343000>>, <<20000>>, <<999000>>, 2, 1>>,
               <<101, 0, <<>>, <<>>, <<>>, 0, 0>>,
               <<102, 1, <<5000>>, <<5000>>, <<5000>>, 1, 0>> >>

\* C11: a run aborted because its sink could not be opened has created no
\* worker task and issued no request.
C11_AbortBeforeWorkers ==
    (pc = "aborted") => (nreq = 0 /\ \A w \in Workers : wpc[w] = "none")

\* The aggregation loop dequeues a Sample of a second before current_sec.
LateDequeue ==
    /\ pc = "wait" /\ pc' = "loop"
    /\ out_q # <<>>
    /\ Head(out_q).ts < current_sec

\* C12 (as stated): a Sample dequeued with observed_at < current_sec is folded
\* into the open bucket: its latency is appended to lats and ok or err is
\* incremented.
C12_LateFolded ==
    [][LateDequeue => /\ lats' = Append(lats, Head(out_q).dt)
                      /\ ok' + err' = ok + err + 1]_vars

\* C12 (amended): a Sample dequeued with observed_at < current_sec is
\* discarded: the open bucket, current_sec and the rows are left as they
\* were, and the Sample is only marked done on the queue.
C12_LateDropped ==
    [][LateDequeue => /\ UNCHANGED <<current_sec, lats, ok, err, rows, held>>
                      /\ out_q' = Tail(out_q)
                      /\ unfinished' = unfinished - 1]_vars

\* A Sample older than the initial current_sec was the last one dequeued, and
\* no row has been written yet.
C12_LateSeen ==
    /\ pc = "loop"
    /\ rows = <<>>
    /\ fed # <<>>
    /\ fed[Len(fed)].ts < current_sec

\* C13: every row written satisfies ok + err = count, whichever path wrote it
\* (the flush driven by a Sample, the empty second, the poll timeout).
C13_OkErrCount ==
    \A i \in DOMAIN rows : rows[i].ok + rows[i].err = rows[i].n

\* Rows of both kinds have been written: one counting successes and failures,
\* and an empty one.
C13_MixedRows ==
    /\ \E i \in DOMAIN rows : rows[i].ok >= 1 /\ rows[i].err >= 1
    /\ \E j \in DOMAIN rows : rows[j].n = 0

InFlight == {w \in Workers : wpc[w] = "inflight"}

\* C14: every request attempt produces exactly one Sample (the requests
\* issued are the Samples consumed, those on the queue and the requests in
\* flight); a request that raised is recorded with status -1; and a worker
\* leaves its loop only once stop_evt is set.
C14_OneSamplePerAttempt ==
    /\ pc \in {"warmup", "loop", "wait", "gather"}
          => nreq = Len(fed) + Len(out_q) + Cardinality(InFlight)
    /\ \A k \in DOMAIN out_q : out_q[k].exc => out_q[k].code = -1
    /\ \A k \in DOMAIN fed : fed[k].exc => fed[k].code = -1
    /\ \A w \in Workers : wpc[w] = "done" => stop_evt

\* The only worker had a request raise, put its Sample and issued its next
\* request.
C14_ContinuedAfterFailure ==
    /\ concurrency = 1
    /\ \E k \in DOMAIN out_q : out_q[k].exc
    /\ InFlight # {}

\* The worker found a positive total size.
SizeKnown == total # <<>> /\ total[1] > 0

\* C15: with the total size T > 0 known and chunk_size >= 1, every range
\* request has 0 <= start <= end <= T-1 and at most chunk_size bytes, and the
\* offset the next request starts at is never T or beyond.
C15_RangeWithinResource ==
    (SizeKnown /\ chunk_size >= 1) =>
        /\ rng # <<>> =>
              /\ 0 <= rng[1] /\ rng[1] <= rng[2] /\ rng[2] <= total[1] - 1
              /\ rng[2] - rng[1] + 1 <= chunk_size
        /\ 0 <= offset /\ offset <= total[1] - 1

\* After earlier requests and with seeks possible, a request in flight is
\* clamped: it ends at T-1 and is shorter than chunk_size.
C15_ClampedRange ==
    /\ SizeKnown
    /\ seek_prob = 50
    /\ nreq >= 3
    /\ rng # <<>>
    /\ rng[2] = total[1] - 1
    /\ rng[2] - rng[1] + 1 < chunk_size

\* The ranges of the worked example: 1000 bytes read in chunks of 300.
ExampleRanges == << <<0, 299>>, <<300, 599>>, <<600, 899>>, <<900, 999>> >>

\* The ranges requested since the offset was last drawn are contiguous, all
\* but the last are chunk_size long, the last ends at start + chunk_size - 1
\* or at T-1, whichever is less, and the next request starts where the last
\* ended; an offset just drawn is below T.
Contiguous ==
    /\ \A i \in 1..(Len(run) - 1) :
          /\ run[i + 1][1] = run[i][2] + 1
          /\ run[i][2] - run[i][1] + 1 = chunk_size
    /\ run # <<>> =>
          LET last == run[Len(run)]
          IN  /\ last[2] = Min(last[1] + chunk_size - 1, total[1] - 1)
              /\ \E w \in Workers : wpc[w] = "top" =>
                    offset = last[2] + 1 /\ last[2] < total[1] - 1
    /\ run = <<>> => offset \in 0..(total[1] - 1)

\* C16: with seek_prob = 0 the successive ranges of a worker are contiguous,
\* each chunk_size long except the last, clamped to T-1; the sequence is
\* broken only after a range that ended at T-1, and then by an offset drawn
\* below T.  For T = 1000 and chunk_size = 300 from offset 0 the ranges are
\* [0,299], [300,599], [600,899], [900,999], then a redraw.
C16_SequentialRanges ==
    /\ []((SizeKnown /\ seek_prob = 0) =>
            /\ Contiguous
            /\ (total[1] = 1000 /\ chunk_size = 300 /\ run # <<>> /\ run[1][1] = 0)
                  => /\ Len(run) <= Len(ExampleRanges)
                     /\ run = SubSeq(ExampleRanges, 1, Len(run)))
    /\ [][(SizeKnown /\ seek_prob = 0) =>
            /\ (run # <<>> /\ run' # run /\ run' # <<>>)
                  => run' = Append(run, rng')
            /\ (rng # <<>> /\ rng' = <<>>)
                  => IF rng[2] = total[1] - 1
                     THEN run' = <<>> /\ offset' \in 0..(total[1] - 1)
                     ELSE run' = run /\ offset' = rng[2] + 1]_vars

\* The four ranges of the worked example have been requested, the last one
\* being in flight.
C16_ExampleRun ==
    /\ total = <<1000>>
    /\ chunk_size = 300
    /\ run = ExampleRanges
    /\ rng = <<900, 999>>

\* C17: a range worker whose probes found no positive total size is in the
\* fallback loop: it builds no range, every request it has issued has put
\* one Sample (or is in flight), and it has returned only if stop_evt is set.
C17_Fallback ==
    \A w \in Workers :
        (wpc[w] \notin {"none", "head", "probe"} /\ ~SizeKnown) =>
            /\ wpc[w] \in {"ftop", "fget", "done"}
            /\ rng = <<>> /\ run = <<>>
            /\ nreq = Len(out_q) + (IF wpc[w] = "fget" THEN 1 ELSE 0)
            /\ wpc[w] = "done" => stop_evt

\* A worker without a size has put two Samples, one of a GET that raised,
\* and has its next unranged GET in flight.
C17_FallbackRunning ==
    /\ ~SizeKnown
    /\ \E w \in Workers : wpc[w] = "fget"
    /\ Len(out_q) >= 2
    /\ \E k \in DOMAIN out_q : out_q[k].exc

\* The latencies of the Samples a row counts, in arrival order.
Latencies(r) == [j \in DOMAIN r.src |-> r.src[j].dt]

\* v is the element at zero-based index k of l sorted ascending.
IsKth(l, k, v) ==
    /\ Cardinality({j \in DOMAIN l : l[j] < v}) <= k
    /\ k < Cardinality({j \in DOMAIN l : l[j] <= v})

\* k is num/den rounded to the nearest integer, a tie to the even one.
IsRound(k, num, den) ==
    LET d == 2 * (k * den - num)
    IN  /\ -den <= d /\ d <= den
        /\ (d = den \/ d = -den) => k % 2 = 0

\* The field spells, to three decimals, the element of l at index
\* min(n-1, round(pct/100 * (n-1))) of the ascending order.
IsPercentile(field, l, pct) ==
    LET n == Len(l)
    IN  \E k \in 0..n :
          /\ IsRound(k, pct * (n - 1), 100)
          /\ \E j \in DOMAIN l :
                /\ field = <<1000 * l[j]>>
                /\ IsKth(l, Min(n - 1, k), l[j])

\* The field spells the arithmetic mean of l to the nearest thousandth.
IsMean(field, l) ==
    LET d == 2 * (field[1] * Len(l) - 1000 * Sum(l))
    IN  -Len(l) <= d /\ d <= Len(l)

\* C18: in the row of a non-empty bucket of n latencies, p50 is the element
\* at index min(n-1, round(0.50*(n-1))) of the ascending order, p95 the one
\* at min(n-1, round(0.95*(n-1))), avg the arithmetic mean; computing the row
\* again from the sorted list gives the same row.
C18_NearestRank ==
    \A i \in DOMAIN rows :
        rows[i].n > 0 =>
            LET r == rows[i]
                l == Latencies(r)
            IN  /\ r.n = Len(l)
                /\ IsPercentile(r.p50, l, 50)
                /\ IsPercentile(r.p95, l, 95)
                /\ IsMean(r.avg, l)
                /\ Visible(SummaryRow(r.ts, Sorted(l), r.ok, r.err, r.src))
                      = Visible(r)

\* A row counts four Samples (the p50 index is the tie 1.5) that did not
\* arrive in ascending order of latency, and its p50 and p95 differ.
C18_TieAndOrder ==
    \E i \in DOMAIN rows :
        /\ rows[i].n = 4
        /\ rows[i].src[1].dt > rows[i].src[2].dt
        /\ rows[i].p50 # rows[i].p95

\* The field spells a value between the least and the greatest element of l.
WithinRange(field, l) ==
    /\ \E j \in DOMAIN l : 1000 * l[j] <= field[1]
    /\ \E j \in DOMAIN l : field[1] <= 1000 * l[j]

\* C19: in every row with count > 0, p50 <= p95 and both lie between the
\* minimum and the maximum latency of the Samples the row counts.
C19_PercentilesOrdered ==
    \A i \in DOMAIN rows :
        rows[i].n > 0 =>
            /\ rows[i].p50[1] <= rows[i].p95[1]
            /\ WithinRange(rows[i].p50, Latencies(rows[i]))
            /\ WithinRange(rows[i].p95, Latencies(rows[i]))

\* A row counts Samples that did not arrive in ascending order of latency,
\* and its p50 lies strictly between the least latency and its p95.
C19_SpreadRow ==
    \E i \in DOMAIN rows :
        /\ rows[i].n >= 3
        /\ rows[i].src[1].dt > rows[i].src[rows[i].n].dt
        /\ rows[i].p50[1] < rows[i].p95[1]
        /\ \E j \in DOMAIN rows[i].src : 1000 * rows[i].src[j].dt < rows[i].p50[1]

\* C20: the row of a second of which the loop got no Sample has count = 0,
\* ok = 0, err = 0 and empty avg, p50 and p95.
C20_EmptySecond ==
    \A i \in DOMAIN rows :
        (\A k \in DOMAIN fed : fed[k].ts # rows[i].ts)
            => Visible(rows[i]) = <<rows[i].ts, 0, <<>>, <<>>, <<>>, 0, 0>>

\* C21: the ts of the rows written are strictly increasing: no ts is written
\* twice and no row has a ts below an earlier row's.
C21_StrictlyIncreasing ==
    \A i \in DOMAIN rows : \A j \in DOMAIN rows : i < j => rows[i].ts < rows[j].ts

\* After a late Sample was dequeued, rows have been written by a timeout and
\* by a flush, one of them past a second that got no row.
C21_LateAndTimeouts ==
    /\ fed # <<>>
    /\ fed[1].ts < start_sec
    /\ Len(rows) >= 2
    /\ \E i \in 1..(Len(rows) - 1) : rows[i + 1].ts > rows[i].ts + 1

AheadDequeue ==
    /\ pc = "wait" /\ pc' = "loop"
    /\ out_q # <<>>
    /\ Head(out_q).ts > current_sec

\* C23: dequeuing a Sample with observed_at = current_sec + k, k >= 1, writes
\* exactly k rows with ts current_sec, ..., current_sec + k - 1, the first
\* for the open bucket and the others empty, sets current_sec to observed_at
\* and leaves a bucket holding that one Sample.
C23_CatchUp ==
    [][AheadDequeue =>
        LET s == Head(out_q)
            k == s.ts - current_sec
            m == Len(rows)
        IN  /\ Len(rows') = m + k
            /\ SubSeq(rows', 1, m) = rows
            /\ \A j \in 1..k : rows'[m + j].ts = current_sec + j - 1
            /\ rows'[m + 1].n = Len(lats)
            /\ rows'[m + 1].ok = ok /\ rows'[m + 1].err = err
            /\ rows'[m + 1].src = held
            /\ \A j \in 2..k :
                  Visible(rows'[m + j])
                      = <<current_sec + j - 1, 0, <<>>, <<>>, <<>>, 0, 0>>
            /\ current_sec' = s.ts
            /\ lats' = <<s.dt>>
            /\ held' = <<s>>
            /\ ok' + err' = 1]_vars

\* load_py has just caught up over a skipped second: the last two rows are
\* the row of a bucket that held Samples and an empty row for the second
\* before current_sec, and the bucket holds one Sample.
C23_SkippedSecond ==
    /\ tool = "load_py"
    /\ pc = "loop"
    /\ Len(rows) >= 2
    /\ rows[Len(rows) - 1].n > 0
    /\ rows[Len(rows)].n = 0
    /\ rows[Len(rows)].ts = current_sec - 1
    /\ Len(lats) = 1

\* C24 (as stated): once stop_evt is set a worker starts no request: it has
\* a request in flight only if it had that request in flight before.
C24_NoRequestAfterStop ==
    [][stop_evt =>
        \A w \in Workers :
            wpc'[w] \in {"head", "probe", "inflight", "fget"} => wpc'[w] = wpc[w]]_vars

\* C24 (amended): once stop_evt is set no worker starts a request of its
\* request loop: a worker at the top of its loop can only exit, a worker with
\* a loop request in flight puts its one Sample, which it can always do (the
\* queue is unbounded), and nothing else puts a Sample.  A range worker that
\* is still probing for the size finishes its probes first.
C24_StopRespected ==
    /\ [](stop_evt =>
            \A w \in Workers :
                /\ wpc[w] = "inflight" => ENABLED RangeDone(w)
                /\ wpc[w] = "fget" => ENABLED FallbackComplete(w))
    /\ [][stop_evt =>
            /\ nreq' = nreq
            /\ \A w \in Workers :
                  /\ wpc[w] \in {"top", "ftop"} => wpc'[w] \in {wpc[w], "done"}
                  /\ wpc[w] = "done" => wpc'[w] = "done"
                  /\ wpc[w] = "probe" => wpc'[w] # "head"
            /\ Len(out_q') <= Len(out_q) + 1
            /\ Len(out_q') > Len(out_q) =>
                  \E w \in Workers : /\ wpc[w] \in {"inflight", "fget"}
                                     /\ wpc'[w] \in {"top", "ftop"}]_vars

\* A streaming worker has exited after stop_evt was set, its Samples on the
\* queue.
C24_ExitedAfterStop ==
    /\ stop_evt
    /\ SizeKnown
    /\ \E w \in Workers : wpc[w] = "done"
    /\ Len(out_q) >= 2

\* The number of Samples counted by the rows written so far.
RECURSIVE RowCounts(_)
RowCounts(out) == IF out = <<>> THEN 0 ELSE Head(out).n + RowCounts(Tail(out))

\* How many times the Sample v occurs in the sequence q.
RECURSIVE Occurrences(_, _)
Occurrences(v, q) ==
    IF q = <<>> THEN 0
    ELSE (IF Head(q) = v THEN 1 ELSE 0) + Occurrences(v, Tail(q))

\* The Samples behind the rows written so far, row after row.
RECURSIVE Counted(_)
Counted(out) == IF out = <<>> THEN <<>> ELSE Head(out).src \o Counted(Tail(out))

\* C25: every Sample is dequeued at most once and counted in at most one
\* row: the counts of the rows written, together with the open bucket, never
\* exceed the number of Samples dequeued during Running, which never exceeds
\* the number of requests made; each row counts exactly the Samples folded
\* into it, and no Sample is counted more often than it was dequeued.
C25_AtMostOnce ==
    /\ RowCounts(rows) + Len(lats) <= Len(fed)
    /\ Len(fed) + Len(out_q) <= nreq
    /\ \A i \in DOMAIN rows : rows[i].n = Len(rows[i].src)
    /\ Len(held) = Len(lats)
    /\ \A j \in DOMAIN fed :
          Occurrences(fed[j], Counted(rows) \o held) <= Occurrences(fed[j], fed)

\* Two workers produced three Samples, all three were dequeued and counted,
\* in two or more rows.
C25_ConcurrentProducers ==
    /\ concurrency = 2
    /\ Len(fed) >= 3
    /\ Len(rows) >= 2
    /\ \E i \in DOMAIN rows : \E j \in DOMAIN rows : i < j /\ rows[i].n > 0 /\ rows[j].n > 0
    /\ RowCounts(rows) + Len(lats) = Len(fed)

\* C26: current_sec never decreases: no step of the program, whether it
\* dequeues a Sample of the current second, an older one or a later one, or
\* times out on the empty queue, leaves current_sec smaller than it was.
C26_NeverDecreases == [][current_sec' >= current_sec]_vars

\* range_loader dequeued a Sample older than the second it started in and has
\* since moved current_sec on by two seconds or more.
C26_LateThenAhead ==
    /\ tool = "range_loader"
    /\ \E j \in DOMAIN fed : fed[j].ts < start_sec
    /\ \E j \in DOMAIN fed : fed[j].ts > start_sec
    /\ current_sec >= start_sec + 2

\* C27: every seek or reseed of the cursor (the initial offset, a
\* probabilistic seek, the reseed after the end) can return each of the
\* offsets 0..T-1 of a resource of T bytes.
C27_WholeInterval ==
    SizeKnown => RandRange(total[1]) = 0..(total[1] - 1)

\* C28: between two aggregator steps every latency in the open bucket
\* belongs to a Sample of the second current_sec, and the bucket's counters
\* are those of its Samples; a step that changes current_sec leaves the
\* bucket holding nothing but what it folded for the new second.
C28_BucketOfCurrentSecond ==
    /\ Len(held) = Len(lats)
    /\ ok + err = Len(lats)
    /\ \A j \in DOMAIN held : held[j].ts = current_sec /\ held[j].dt = lats[j]

\* C29: in load_py every get is matched by one task_done: whenever the
\* consumer is at the top of its loop or about to poll, and while it waits
\* for the workers, the queue's unfinished-task count equals the number of
\* queued items; after the drain loop the queue is empty and the count is 0,
\* so out_q.join() returns at once and the program never stays blocked in it.
C29_TaskDoneMatched ==
    tool = "load_py" =>
        /\ pc \in {"loop", "wait", "gather"} => unfinished = Len(out_q)
        /\ pc # "join"
        /\ pc = "stopped" => (unfinished = 0 /\ out_q = <<>> /\ f = "closed")

\* load_py has stopped after its drain loop took Samples that the
\* aggregation loop had not dequeued, other Samples having been dequeued
\* during the run.
C29_DrainedAndJoined ==
    /\ tool = "load_py"
    /\ pc = "stopped"
    /\ fed # <<>>
    /\ \A w \in Workers : wpc[w] \in {"done", "none"}
    /\ Len(fed) < nreq

\* The Samples the loop can dequeue next: any latency and outcome, stamped
\* with a second from one before current_sec to two after it.
NextSamples ==
    {[ts |-> t, dt |-> r[1], code |-> WorkerCode(r[2]), wu |-> FALSE,
      exc |-> (r[2] = <<>>)] :
        t \in (current_sec - 1)..(current_sec + 2), r \in ScenarioResponses}

\* load_py's loop run over the Samples q from the aggregator state a, no poll
\* timing out in between.
RECURSIVE LoadPyRun(_, _)
LoadPyRun(a, q) ==
    IF q = <<>> THEN a ELSE LoadPyRun(LoadPyOnSample(a, Head(q)), Tail(q))

\* range_loader's loop run over the same Samples.
RECURSIVE RangeRun(_, _)
RangeRun(a, q) ==
    IF q = <<>> THEN a ELSE RangeRun(RangeOnSample(a, Head(q)), Tail(q))

\* The aggregator as the loop starts in second start_sec.
FirstAgg == Agg(start_sec, <<>>, 0, 0, <<>>, <<>>)

\* C30: started in the same second and given the same dequeued Samples with
\* no poll timeout in between, the loops of load_py and range_loader write
\* the same rows and end with the same current_sec, lats, ok and err; the
\* run of load_py, whose timeouts change nothing, ends in exactly that state;
\* and from the state reached, any next Sample (older, current or ahead)
\* takes both loops to the same state again.
C30_SameLoop ==
    /\ LoadPyRun(FirstAgg, fed) = RangeRun(FirstAgg, fed)
    /\ tool = "load_py" => Cur = LoadPyRun(FirstAgg, fed)
    /\ \A s \in NextSamples : LoadPyOnSample(Cur, s) = RangeOnSample(Cur, s)

\* Three or more Samples were dequeued, range_loader's state is the one its
\* loop reaches without a timeout, and the rows written include an empty
\* second and a second with Samples.
C30_RowsFromSamplesOnly ==
    /\ tool = "range_loader"
    /\ Len(fed) >= 3
    /\ Cur = RangeRun(FirstAgg, fed)
    /\ \E i \in DOMAIN rows : rows[i].n = 0
    /\ \E i \in DOMAIN rows : rows[i].n > 0

====
